---- MODULE Spec2Model ----
(***************************************************************************)
(* Riichi mahjong scoring and round progression: the value calculator      *)
(* (Points.py), the transaction builders and the round accumulator         *)
(* (RiichiRound.py) and the match progression (round_end.py).              *)
(*                                                                         *)
(* RiichiRound.py reads its records through the module Types; the record   *)
(* declarations available are those of riichi_types.py, and the attribute  *)
(* names paoTarget / transactionType used in RiichiRound.py are read as    *)
(* the fields pao_target / transaction_type declared there.                *)
(***************************************************************************)
EXTENDS Integers, Sequences, FiniteSets, TLC

VARIABLES
    round_wind,                 \* RiichiRound.round_wind
    round_number,               \* RiichiRound.round_number
    honba,                      \* RiichiRound.honba
    start_riichi_stick_count,   \* RiichiRound.start_riichi_stick_count
    riichis,                    \* RiichiRound.riichis
    tenpais,                    \* RiichiRound.tenpais
    transactions,               \* RiichiRound.transactions, the list object the
                                \* ConcludedRound shares with the accumulator
    concluded,                  \* the ConcludedRound returned by concludeRound
    new_round,                  \* the NewRound returned by generate_next_round
    overall,                    \* the list returned by generate_overall_score_deltas
    calls,                      \* the calls made so far, with their arguments
    result,                     \* the Transaction returned by a builder called directly
    value,                      \* the number returned by calculate_hand_value called directly
    pc,                         \* where the caller is
    earlier_rounds,             \* the ConcludedRounds of the match before this round
    starting_score,             \* the list the caller passes to is_game_end, if any
    game_end                    \* what the calls of is_game_end returned, in order

\* The caller's state around is_game_end.
matchVars == <<earlier_rounds, starting_score, game_end>>

vars == <<round_wind, round_number, honba, start_riichi_stick_count, riichis,
          tenpais, transactions, concluded, new_round, overall, calls, result,
          value, pc, matchVars>>

----------------------------------------------------------------------------
(* riichi_types.py *)

NUM_PLAYERS == 4
STARTING_POINT == 25000
RETURNING_POINT == 30000
RIICHI_STICK_VALUE == 1000

Seats == 0 .. (NUM_PLAYERS - 1)

WIND_ORDER == <<"EAST", "SOUTH", "WEST", "NORTH">>

Wind == {WIND_ORDER[i] : i \in 1 .. Len(WIND_ORDER)}

TransactionType ==
    {"DEAL_IN", "SELF_DRAW", "DEAL_IN_PAO", "SELF_DRAW_PAO", "NAGASHI_MANGAN",
     "INROUND_RYUUKYOKU"}

\* The position of a wind in WIND_ORDER, counted from 0 as list.index does.
WindIndex(wind) == (CHOOSE i \in 1 .. Len(WIND_ORDER) : WIND_ORDER[i] = wind) - 1

get_empty_score_deltas == [i \in Seats |-> 0]

get_starting_score == [i \in Seats |-> STARTING_POINT]

\* get_next_wind returning the wind it was given.
get_next_wind_Stay(wind) == wind

get_next_wind(wind) == WIND_ORDER[((WindIndex(wind) + 1) % NUM_PLAYERS) + 1]

Hand(fu, han) == [fu |-> fu, han |-> han]

\* Optional[Hand] = None and Optional[int] = None.
NoHand == [fu |-> -1, han |-> -1]
NoSeat == -1

Transaction(transaction_type, score_deltas, hand, pao_target) ==
    [transaction_type |-> transaction_type, score_deltas |-> score_deltas,
     hand |-> hand, pao_target |-> pao_target]

NewRound(wind, number, h, sticks) ==
    [round_wind |-> wind, round_number |-> number, honba |-> h,
     start_riichi_stick_count |-> sticks]

----------------------------------------------------------------------------
(* Points.py *)

MANGAN_BASE_POINT == 2000

\* Twice the multiplier of mangan_value, which takes the value 1.5.
ManganTwiceMultiplier(points) ==
    IF points = 5 THEN 2
    ELSE IF points <= 7 THEN 3
    ELSE IF points <= 10 THEN 4
    ELSE IF points <= 12 THEN 6
    ELSE IF points = 13 THEN 8
    ELSE IF points = 26 THEN 16
    ELSE IF points = 39 THEN 24
    ELSE IF points = 52 THEN 32
    ELSE IF points = 65 THEN 40
    ELSE 0

mangan_value(points) == (MANGAN_BASE_POINT * ManganTwiceMultiplier(points)) \div 2

\* math.ceil is applied to the result of the floor division //, an integer
\* already, and changes nothing.
calculate_hand_value(multiplier, hand) ==
    IF hand.han >= 5
    THEN mangan_value(hand.han) * multiplier
    ELSE LET mangan_payout == MANGAN_BASE_POINT * multiplier
             hand_value == ((hand.fu * (2 ^ (2 + hand.han)) * multiplier) \div 100) * 100
         IN  IF hand_value > mangan_payout THEN mangan_payout ELSE hand_value

----------------------------------------------------------------------------
(* helper.py *)

\* Whether containing_any returns a transaction (and not None).
containing_any(ts, transaction_type) ==
    \E i \in 1 .. Len(ts) : ts[i].transaction_type = transaction_type

\* The position of the transaction containing_any returns.
containing_any_index(ts, transaction_type) ==
    CHOOSE i \in 1 .. Len(ts) :
        /\ ts[i].transaction_type = transaction_type
        /\ \A j \in 1 .. (i - 1) : ts[j].transaction_type # transaction_type

----------------------------------------------------------------------------
(* RiichiRound.py: the transaction builders *)

get_deal_in_multiplier(person_index, dealer_index) ==
    IF person_index = dealer_index THEN 6 ELSE 4

\* get_self_draw_multiplier without the is_dealer test: a dealer's self-draw
\* is paid like anybody's.
get_self_draw_multiplier_PayerOnly(person_index, dealer_index, is_dealer) ==
    IF person_index = dealer_index THEN 2 ELSE 1

get_self_draw_multiplier(person_index, dealer_index, is_dealer) ==
    IF is_dealer \/ person_index = dealer_index THEN 2 ELSE 1

get_deal_in_transaction(winner_index, loser_index, dealer_index, hand) ==
    LET multiplier == get_deal_in_multiplier(winner_index, dealer_index)
        hand_value == calculate_hand_value(multiplier, hand)
        d1 == [get_empty_score_deltas EXCEPT ![winner_index] = @ - hand_value]
        d2 == [d1 EXCEPT ![loser_index] = @ + hand_value]
    IN  Transaction("DEAL_IN", d2, hand, NoSeat)

get_self_draw_transaction(winner_index, dealer_index, hand) ==
    LET is_dealer == winner_index = dealer_index
        pay(i) == calculate_hand_value(
                      get_self_draw_multiplier(i, dealer_index, is_dealer), hand)
        payers == Seats \ {winner_index}
        Sum[S \in SUBSET payers] ==
            IF S = {} THEN 0
            ELSE LET i == CHOOSE x \in S : TRUE IN pay(i) + Sum[S \ {i}]
        total_score == Sum[payers]
    IN  Transaction("SELF_DRAW",
                    [i \in Seats |-> IF i = winner_index THEN total_score ELSE -pay(i)],
                    hand, NoSeat)

get_in_round_ryuukyoku_transaction ==
    Transaction("INROUND_RYUUKYOKU", get_empty_score_deltas, NoHand, NoSeat)

\* get_nagashi_mangan_transaction with score_deltas[winner_index] = value in
\* place of += value: the winner keeps the last payment only.
get_nagashi_mangan_transaction_LastPayment(winner_index, dealer_index) ==
    LET is_dealer == winner_index = dealer_index
        pay(i) == MANGAN_BASE_POINT * get_self_draw_multiplier(i, dealer_index, is_dealer)
        last == CHOOSE i \in Seats \ {winner_index} :
                    \A j \in Seats \ {winner_index} : j <= i
    IN  Transaction("NAGASHI_MANGAN",
                    [i \in Seats |-> IF i = winner_index THEN pay(last) ELSE -pay(i)],
                    NoHand, NoSeat)

get_nagashi_mangan_transaction(winner_index, dealer_index) ==
    LET is_dealer == winner_index = dealer_index
        pay(i) == MANGAN_BASE_POINT * get_self_draw_multiplier(i, dealer_index, is_dealer)
        payers == Seats \ {winner_index}
        Sum[S \in SUBSET payers] ==
            IF S = {} THEN 0
            ELSE LET i == CHOOSE x \in S : TRUE IN pay(i) + Sum[S \ {i}]
    IN  Transaction("NAGASHI_MANGAN",
                    [i \in Seats |-> IF i = winner_index THEN Sum[payers] ELSE -pay(i)],
                    NoHand, NoSeat)

get_deal_in_pao_transaction(winner_index, deal_in_person_index, pao_player_index, dealer_index, hand) ==
    LET multiplier == get_deal_in_multiplier(winner_index, dealer_index)
        d1 == [get_empty_score_deltas EXCEPT
                  ![deal_in_person_index] = -calculate_hand_value(multiplier \div 2, hand)]
        d2 == [d1 EXCEPT ![pao_player_index] = -calculate_hand_value(multiplier \div 2, hand)]
        d3 == [d2 EXCEPT ![winner_index] = calculate_hand_value(multiplier, hand)]
    IN  Transaction("DEAL_IN_PAO", d3, hand, pao_player_index)

get_self_draw_pao_transaction(winner_index, pao_player_index, dealer_index, hand) ==
    LET multiplier == get_deal_in_multiplier(winner_index, dealer_index)
        v == calculate_hand_value(multiplier, hand)
        d1 == [get_empty_score_deltas EXCEPT ![pao_player_index] = -v]
        d2 == [d1 EXCEPT ![winner_index] = v]
    IN  Transaction("SELF_DRAW_PAO", d2, hand, pao_player_index)

----------------------------------------------------------------------------
(* RiichiRound.py: head bump and the overall score deltas *)

\* The sets find_head_bump_winner collects; a transaction's pao target is
\* skipped in that transaction.
HeadBumpWinners(ts) ==
    {i \in Seats : \E k \in 1 .. Len(ts) :
        ts[k].pao_target # i /\ ts[k].score_deltas[i] > 0}

HeadBumpLosers(ts) ==
    {i \in Seats : \E k \in 1 .. Len(ts) :
        /\ ts[k].pao_target # i
        /\ ~(ts[k].score_deltas[i] > 0)
        /\ ts[k].score_deltas[i] < 0}

\* [x, *_] = s takes the first element the set's iterator gives: for a set of
\* seat numbers 0..3, whose hashes are the numbers themselves, the smallest.
FirstOf(s) == CHOOSE x \in s : \A y \in s : x <= y

\* The loop of get_closest_winner over the winners from seat i on, in the
\* iterator's order, closest_winner being the closest one found so far.
RECURSIVE ClosestFrom(_, _, _, _)
ClosestFrom(i, loser_local_pos, winners, closest_winner) ==
    IF i >= NUM_PLAYERS THEN closest_winner
    ELSE IF /\ i \in winners
            /\ (i - loser_local_pos) % NUM_PLAYERS
                   < (closest_winner - loser_local_pos) % NUM_PLAYERS
         THEN ClosestFrom(i + 1, loser_local_pos, winners, i)
         ELSE ClosestFrom(i + 1, loser_local_pos, winners, closest_winner)

get_closest_winner(loser_local_pos, winners) ==
    ClosestFrom(0, loser_local_pos, winners, FirstOf(winners))

\* Unpacking an empty set raises ValueError, in find_head_bump_winner (no
\* loser) or in get_closest_winner (no winner).
find_head_bump_winner_raises(ts) ==
    HeadBumpLosers(ts) = {} \/ HeadBumpWinners(ts) = {}

find_head_bump_winner(ts) ==
    get_closest_winner(FirstOf(HeadBumpLosers(ts)), HeadBumpWinners(ts))

InList(i, list) == \E k \in 1 .. Len(list) : list[k] = i

\* generate_tenpai_score_deltas charging the seats that are not tenpai their
\* share of the 3000 points: -3000 // (NUM_PLAYERS - len(tenpais)).
generate_tenpai_score_deltas_SharedCost(tenpai_list) ==
    IF Len(tenpai_list) = 0 \/ Len(tenpai_list) = NUM_PLAYERS
    THEN get_empty_score_deltas
    ELSE [i \in Seats |->
             IF InList(i, tenpai_list)
             THEN 3000 \div Len(tenpai_list)
             ELSE (-3000) \div (NUM_PLAYERS - Len(tenpai_list))]

\* Python's // rounds down.
generate_tenpai_score_deltas(tenpai_list) ==
    IF Len(tenpai_list) = 0 \/ Len(tenpai_list) = NUM_PLAYERS
    THEN get_empty_score_deltas
    ELSE [i \in Seats |->
             IF InList(i, tenpai_list)
             THEN 3000 \div Len(tenpai_list)
             ELSE (-3000) \div Len(tenpai_list)]

RECURSIVE reduce_score_deltas(_)
reduce_score_deltas(ts) ==
    IF Len(ts) = 0 THEN get_empty_score_deltas
    ELSE LET rest == reduce_score_deltas(SubSeq(ts, 1, Len(ts) - 1))
         IN  [i \in Seats |-> rest[i] + ts[Len(ts)].score_deltas[i]]

\* raw_score_deltas[riichi_player] -= 1000, once for each entry of the list.
RECURSIVE SubtractRiichis(_, _)
SubtractRiichis(deltas, riichi_list) ==
    IF Len(riichi_list) = 0 THEN deltas
    ELSE SubtractRiichis([deltas EXCEPT ![Head(riichi_list)] = @ - 1000],
                         Tail(riichi_list))

generate_overall_score_deltas_raises(c) ==
    /\ ~containing_any(c.transactions, "NAGASHI_MANGAN")
    /\ find_head_bump_winner_raises(c.transactions)

generate_overall_score_deltas(c) ==
    LET raw_score_deltas ==
            SubtractRiichis(reduce_score_deltas(c.transactions), c.riichis)
        tenpai_deltas == generate_tenpai_score_deltas(c.tenpais)
        riichi_deltas == [i \in Seats |-> tenpai_deltas[i] + raw_score_deltas[i]]
        headbump_winner == find_head_bump_winner(c.transactions)
    IN  IF containing_any(c.transactions, "NAGASHI_MANGAN") THEN raw_score_deltas
        ELSE IF c.end_riichi_stick_count = 0
        THEN [riichi_deltas EXCEPT ![headbump_winner] =
                 @ + (c.start_riichi_stick_count + Len(c.riichis)) * RIICHI_STICK_VALUE]
        ELSE riichi_deltas

----------------------------------------------------------------------------
(* RiichiRound.py: the honba transform *)

handle_deal_in(transaction, h) ==
    [transaction EXCEPT !.score_deltas =
        [i \in Seats |->
            IF transaction.pao_target = i THEN transaction.score_deltas[i]
            ELSE IF transaction.score_deltas[i] > 0
                 THEN transaction.score_deltas[i] + 300 * h
            ELSE IF transaction.score_deltas[i] < 0 THEN -300 * h
            ELSE transaction.score_deltas[i]]]

\* `case A, B:` is a sequence pattern: it matches a subject that is a sequence
\* of two elements equal to A and B. The subject of the match in add_honba is
\* a TransactionType member, which is no sequence, so such an arm never matches.
SequencePatternMatches(subject, first, second) == FALSE

\* add_honba taking 100 * honba from what a SELF_DRAW payer already pays
\* instead of replacing the payment.
add_honba_Subtract(transaction, h) ==
    IF transaction.transaction_type = "SELF_DRAW"
    THEN [transaction EXCEPT !.score_deltas =
             [i \in Seats |->
                 IF transaction.score_deltas[i] > 0
                 THEN transaction.score_deltas[i] + 300 * h
                 ELSE transaction.score_deltas[i] - 100 * h]]
    ELSE IF transaction.transaction_type = "SELF_DRAW_PAO"
    THEN [transaction EXCEPT !.score_deltas =
             [i \in Seats |->
                 IF transaction.score_deltas[i] > 0
                 THEN transaction.score_deltas[i] + 300 * h
                 ELSE IF transaction.score_deltas[i] < 0 THEN -300 * h
                 ELSE transaction.score_deltas[i]]]
    ELSE transaction

\* new_transaction is built on transaction.score_deltas itself, so what is
\* written to it is written to the transaction of the accumulator's list.
add_honba(transaction, h) ==
    IF SequencePatternMatches(transaction.transaction_type,
                              "NAGASHI_MANGAN", "INROUND_RYUUKYOKU")
    THEN transaction
    ELSE IF transaction.transaction_type = "SELF_DRAW"
    THEN [transaction EXCEPT !.score_deltas =
             [i \in Seats |->
                 IF transaction.score_deltas[i] > 0
                 THEN transaction.score_deltas[i] + 300 * h
                 ELSE -100 * h]]
    ELSE IF SequencePatternMatches(transaction.transaction_type,
                                   "DEAL_IN", "DEAL_IN_PAO")
    THEN handle_deal_in(transaction, h)
    ELSE IF transaction.transaction_type = "SELF_DRAW_PAO"
    THEN [transaction EXCEPT !.score_deltas =
             [i \in Seats |->
                 IF transaction.score_deltas[i] > 0
                 THEN transaction.score_deltas[i] + 300 * h
                 ELSE IF transaction.score_deltas[i] < 0 THEN -300 * h
                 ELSE transaction.score_deltas[i]]]
    ELSE transaction

determine_honba_transaction_raises(ts) ==
    /\ Len(ts) # 1
    /\ ~containing_any(ts, "SELF_DRAW")
    /\ find_head_bump_winner_raises(ts)

\* The position in the list of the transaction determine_honba_transaction
\* returns (0: it falls off its end and returns None).
determine_honba_transaction(ts) ==
    IF Len(ts) = 1 THEN 1
    ELSE IF containing_any(ts, "SELF_DRAW") THEN containing_any_index(ts, "SELF_DRAW")
    ELSE LET headbump_winner == find_head_bump_winner(ts)
             pao == {k \in 1 .. Len(ts) :
                        /\ ts[k].score_deltas[headbump_winner] > 0
                        /\ ts[k].transaction_type = "DEAL_IN_PAO"}
             any == {k \in 1 .. Len(ts) : ts[k].score_deltas[headbump_winner] > 0}
         IN  IF pao # {} THEN FirstOf(pao)
             ELSE IF any # {} THEN FirstOf(any)
             ELSE 0

\* The loop of transform_transactions, from index i on: the first of
\* transactions[0..3] equal to the selected transaction (compared after
\* add_honba wrote to it) becomes new_transaction.
RECURSIVE ReplaceFirstEqual(_, _, _)
ReplaceFirstEqual(ts, new_transaction, i) ==
    IF i > NUM_PLAYERS \/ i > Len(ts) THEN ts
    ELSE IF ts[i] = new_transaction THEN [ts EXCEPT ![i] = new_transaction]
    ELSE ReplaceFirstEqual(ts, new_transaction, i + 1)

transform_transactions_raises(ts) ==
    /\ Len(ts) # 0
    /\ \/ determine_honba_transaction_raises(ts)
       \/ determine_honba_transaction(ts) = 0

transform_transactions(ts, h) ==
    IF Len(ts) = 0 THEN ts
    ELSE LET k == determine_honba_transaction(ts)
             new_transaction == add_honba(ts[k], h)
         IN  ReplaceFirstEqual([ts EXCEPT ![k] = new_transaction], new_transaction, 1)

----------------------------------------------------------------------------
(* round_end.py *)

\* The loop of get_new_honba_count from transaction i on.
RECURSIVE NewHonbaFrom(_, _, _, _)
NewHonbaFrom(ts, dealer_index, h, i) ==
    IF i > Len(ts) THEN 0
    ELSE IF ts[i].transaction_type \in {"INROUND_RYUUKYOKU", "NAGASHI_MANGAN"} THEN h + 1
    ELSE IF ts[i].score_deltas[dealer_index] > 0 THEN h + 1
    ELSE NewHonbaFrom(ts, dealer_index, h, i + 1)

\* get_new_honba_count looking at the first transaction only (the return 0
\* moved into the loop).
get_new_honba_count_FirstOnly(ts, dealer_index, h) ==
    IF Len(ts) = 0 THEN h + 1
    ELSE IF ts[1].transaction_type \in {"INROUND_RYUUKYOKU", "NAGASHI_MANGAN"} THEN h + 1
    ELSE IF ts[1].score_deltas[dealer_index] > 0 THEN h + 1
    ELSE 0

get_new_honba_count(ts, dealer_index, h) ==
    IF Len(ts) = 0 THEN h + 1 ELSE NewHonbaFrom(ts, dealer_index, h, 1)

\* The loop of dealership_retains from transaction i on.
RECURSIVE RetainsFrom(_, _, _, _)
RetainsFrom(ts, tenpai_list, dealer_index, i) ==
    IF i > Len(ts) THEN InList(dealer_index, tenpai_list)
    ELSE IF /\ ts[i].transaction_type # "NAGASHI_MANGAN"
            /\ ts[i].score_deltas[dealer_index] > 0
         THEN TRUE
    ELSE IF ts[i].transaction_type = "INROUND_RYUUKYOKU" THEN TRUE
    ELSE RetainsFrom(ts, tenpai_list, dealer_index, i + 1)

\* dealership_retains without the test that leaves NAGASHI_MANGAN out.
dealership_retains_AnyKind(ts, tenpai_list, dealer_index) ==
    \/ \E k \in 1 .. Len(ts) :
          \/ ts[k].score_deltas[dealer_index] > 0
          \/ ts[k].transaction_type = "INROUND_RYUUKYOKU"
    \/ InList(dealer_index, tenpai_list)

dealership_retains(ts, tenpai_list, dealer_index) ==
    RetainsFrom(ts, tenpai_list, dealer_index, 1)

\* generate_next_round carrying the sticks the round started with.
generate_next_round_StartSticks(c) ==
    LET new_honba_count ==
            get_new_honba_count(c.transactions, c.round_number - 1, c.honba)
    IN  IF dealership_retains(c.transactions, c.tenpais, c.round_number - 1)
        THEN NewRound(c.round_wind, c.round_number, new_honba_count,
                      c.start_riichi_stick_count)
        ELSE NewRound(IF c.round_number = NUM_PLAYERS
                      THEN get_next_wind(c.round_wind) ELSE c.round_wind,
                      IF c.round_number = NUM_PLAYERS THEN 1 ELSE c.round_number + 1,
                      new_honba_count,
                      c.start_riichi_stick_count)

generate_next_round(c) ==
    LET new_honba_count ==
            get_new_honba_count(c.transactions, c.round_number - 1, c.honba)
    IN  IF dealership_retains(c.transactions, c.tenpais, c.round_number - 1)
        THEN NewRound(c.round_wind, c.round_number, new_honba_count,
                      c.end_riichi_stick_count)
        ELSE NewRound(IF c.round_number = NUM_PLAYERS
                      THEN get_next_wind(c.round_wind) ELSE c.round_wind,
                      IF c.round_number = NUM_PLAYERS THEN 1 ELSE c.round_number + 1,
                      new_honba_count,
                      c.end_riichi_stick_count)

----------------------------------------------------------------------------
(* The inputs the callers draw from *)

\* The most transactions added to one accumulator.
MaxTrans == 2

Call(op, winner, loser, pao, dealer, hand, multiplier) ==
    [op |-> op, winner |-> winner, loser |-> loser, pao |-> pao,
     dealer |-> dealer, hand |-> hand, multiplier |-> multiplier]

\* The rounds an accumulator is constructed from.
NewRounds ==
    {NewRound("EAST", 1, 0, 0), NewRound("EAST", 1, 2, 2), NewRound("SOUTH", 2, 1, 1),
     NewRound("EAST", 3, 0, 0), NewRound("SOUTH", 4, 0, 1), NewRound("NORTH", 4, 1, 0)}

\* The arguments of the accumulator's methods.
RoundHands == {Hand(30, 3)}
Winners == {0, 1, 3}
Losers == {0, 2}
PaoSeats == {1}
RiichiLists == {<<>>, <<1>>, <<0, 2>>}
TenpaiLists == {<<>>, <<1, 2>>, <<0, 3>>}

\* The arguments of the builders and of calculate_hand_value called directly.
FuValues == {1, 20, 25, 30, 40, 110}
HanValues == (0 .. 14) \cup {26}
Multipliers == {1, 2, 3, 4, 6}
BuilderHands == {Hand(fu, han) : fu \in FuValues, han \in HanValues}

BuilderCalls ==
    {Call("deal_in", w, l, NoSeat, d, h, 0) :
        w \in Seats, l \in Seats, d \in Seats, h \in BuilderHands}
    \cup {Call("self_draw", w, NoSeat, NoSeat, d, h, 0) :
        w \in Seats, d \in Seats, h \in BuilderHands}
    \cup {Call("deal_in_pao", w, l, p, d, h, 0) :
        w \in Seats, l \in Seats, p \in Seats, d \in Seats, h \in BuilderHands}
    \cup {Call("self_draw_pao", w, NoSeat, p, d, h, 0) :
        w \in Seats, p \in Seats, d \in Seats, h \in BuilderHands}
    \cup {Call("nagashi_mangan", w, NoSeat, NoSeat, d, NoHand, 0) :
        w \in Seats, d \in Seats}
    \cup {Call("inround_ryuukyoku", NoSeat, NoSeat, NoSeat, NoSeat, NoHand, 0)}
    \cup {Call("hand_value", NoSeat, NoSeat, NoSeat, NoSeat, h, m) :
        h \in BuilderHands, m \in Multipliers}

\* The seat arguments of a call are pairwise distinct (the input contract).
DistinctSeats(c) ==
    /\ c.loser # NoSeat => c.loser # c.winner
    /\ c.pao # NoSeat => c.pao # c.winner /\ c.pao # c.loser

NoTransaction == Transaction("NONE", get_empty_score_deltas, NoHand, NoSeat)

NoConcludedRound ==
    [round_wind |-> "EAST", round_number |-> 0, honba |-> 0,
     start_riichi_stick_count |-> 0, end_riichi_stick_count |-> 0,
     riichis |-> <<>>, tenpais |-> <<>>]

NoNewRound == NewRound("EAST", 0, 0, 0)

\* starting_score=None: the caller passes no list.
NoStartingScore == [given |-> FALSE, list |-> get_empty_score_deltas]

\* No match around the round: no earlier round, no call of is_game_end.
MatchIdle ==
    /\ earlier_rounds = <<>>
    /\ starting_score = NoStartingScore
    /\ game_end = <<>>

----------------------------------------------------------------------------
(* RiichiRound.py: the round accumulator *)

dealer_index == round_number - 1

\* The ConcludedRound as its readers see it: its transactions are the
\* accumulator's own list.
concluded_round ==
    [round_wind |-> concluded.round_wind, round_number |-> concluded.round_number,
     honba |-> concluded.honba,
     start_riichi_stick_count |-> concluded.start_riichi_stick_count,
     end_riichi_stick_count |-> concluded.end_riichi_stick_count,
     riichis |-> concluded.riichis, tenpais |-> concluded.tenpais,
     transactions |-> transactions]

\* get_final_riichi_sticks with DEAL_IN_PAO left out of the winning kinds.
get_final_riichi_sticks_NoDealInPao ==
    IF \E k \in 1 .. Len(transactions) :
           transactions[k].transaction_type \in {"DEAL_IN", "SELF_DRAW", "SELF_DRAW_PAO"}
    THEN 0
    ELSE start_riichi_stick_count + Len(riichis)

get_final_riichi_sticks ==
    IF \E k \in 1 .. Len(transactions) :
           transactions[k].transaction_type
               \in {"DEAL_IN", "SELF_DRAW", "SELF_DRAW_PAO", "DEAL_IN_PAO"}
    THEN 0
    ELSE start_riichi_stick_count + Len(riichis)

\* RiichiRound.__init__
Init ==
    /\ MatchIdle
    /\ \E r \in NewRounds :
          /\ round_wind = r.round_wind
          /\ round_number = r.round_number
          /\ honba = r.honba
          /\ start_riichi_stick_count = r.start_riichi_stick_count
    /\ riichis = <<>>
    /\ tenpais = <<>>
    /\ transactions = <<>>
    /\ concluded = NoConcludedRound
    /\ new_round = NoNewRound
    /\ overall = get_empty_score_deltas
    /\ calls = <<>>
    /\ result = NoTransaction
    /\ value = 0
    /\ pc = "open"

\* What every add_* method does with the transaction it was built.
Append_(c, transaction) ==
    /\ UNCHANGED matchVars
    /\ pc = "open"
    /\ Len(transactions) < MaxTrans
    /\ transactions' = Append(transactions, transaction)
    /\ calls' = Append(calls, c)
    /\ UNCHANGED <<round_wind, round_number, honba, start_riichi_stick_count,
                   riichis, tenpais, concluded, new_round, overall, result, value, pc>>

add_deal_in(winner_index, loser_index, hand) ==
    Append_(Call("deal_in", winner_index, loser_index, NoSeat, dealer_index, hand, 0),
            get_deal_in_transaction(winner_index, loser_index, dealer_index, hand))

add_self_draw(winner_index, hand) ==
    Append_(Call("self_draw", winner_index, NoSeat, NoSeat, dealer_index, hand, 0),
            get_self_draw_transaction(winner_index, dealer_index, hand))

add_nagashi_mangan(winner_index) ==
    Append_(Call("nagashi_mangan", winner_index, NoSeat, NoSeat, dealer_index, NoHand, 0),
            get_nagashi_mangan_transaction(winner_index, dealer_index))

add_deal_in_pao(winner_index, deal_in_person_index, pao_person_index, hand) ==
    Append_(Call("deal_in_pao", winner_index, deal_in_person_index, pao_person_index,
                 dealer_index, hand, 0),
            get_deal_in_pao_transaction(winner_index, deal_in_person_index,
                                        pao_person_index, dealer_index, hand))

add_self_draw_pao(winner_index, pao_person_index, hand) ==
    Append_(Call("self_draw_pao", winner_index, NoSeat, pao_person_index, dealer_index,
                 hand, 0),
            get_self_draw_pao_transaction(winner_index, pao_person_index, dealer_index,
                                          hand))

add_inround_ryuukyoku ==
    Append_(Call("inround_ryuukyoku", NoSeat, NoSeat, NoSeat, NoSeat, NoHand, 0),
            get_in_round_ryuukyoku_transaction)

set_tenpais(tenpai_list) ==
    /\ UNCHANGED matchVars
    /\ pc = "open"
    /\ tenpais' = tenpai_list
    /\ UNCHANGED <<round_wind, round_number, honba, start_riichi_stick_count, riichis,
                   transactions, concluded, new_round, overall, calls, result, value, pc>>

set_riichis(riichi_list) ==
    /\ UNCHANGED matchVars
    /\ pc = "open"
    /\ riichis' = riichi_list
    /\ UNCHANGED <<round_wind, round_number, honba, start_riichi_stick_count, tenpais,
                   transactions, concluded, new_round, overall, calls, result, value, pc>>

\* end_riichi_stick_count is computed before transform_transactions runs; when
\* that raises, no ConcludedRound is returned and nothing was written.
concludeRound ==
    /\ UNCHANGED matchVars
    /\ pc = "open"
    /\ IF transform_transactions_raises(transactions)
       THEN /\ pc' = "seal_raised"
            /\ UNCHANGED <<transactions, concluded>>
       ELSE /\ concluded' =
                   [round_wind |-> round_wind, round_number |-> round_number,
                    honba |-> honba,
                    start_riichi_stick_count |-> start_riichi_stick_count,
                    end_riichi_stick_count |-> get_final_riichi_sticks,
                    riichis |-> riichis, tenpais |-> tenpais]
            /\ transactions' = transform_transactions(transactions, honba)
            /\ pc' = "sealed"
    /\ UNCHANGED <<round_wind, round_number, honba, start_riichi_stick_count, riichis,
                   tenpais, new_round, overall, calls, result, value>>

\* generate_next_round(concluded_round)
NextRound ==
    /\ UNCHANGED matchVars
    /\ pc = "sealed"
    /\ new_round' = generate_next_round(concluded_round)
    /\ pc' = "next"
    /\ UNCHANGED <<round_wind, round_number, honba, start_riichi_stick_count, riichis,
                   tenpais, transactions, concluded, overall, calls, result, value>>

\* generate_overall_score_deltas(concluded_round)
OverallScoreDeltas ==
    /\ UNCHANGED matchVars
    /\ pc = "sealed"
    /\ IF generate_overall_score_deltas_raises(concluded_round)
       THEN pc' = "score_raised" /\ UNCHANGED overall
       ELSE pc' = "scored" /\ overall' = generate_overall_score_deltas(concluded_round)
    /\ UNCHANGED <<round_wind, round_number, honba, start_riichi_stick_count, riichis,
                   tenpais, transactions, concluded, new_round, calls, result, value>>

Next ==
    \/ \E w \in Winners, l \in Losers, h \in RoundHands :
          w # l /\ add_deal_in(w, l, h)
    \/ \E w \in Winners, h \in RoundHands : add_self_draw(w, h)
    \/ \E w \in Winners : add_nagashi_mangan(w)
    \/ \E w \in Winners, l \in Losers, p \in PaoSeats, h \in RoundHands :
          w # l /\ w # p /\ add_deal_in_pao(w, l, p, h)
    \/ \E w \in Winners, p \in PaoSeats, h \in RoundHands :
          w # p /\ add_self_draw_pao(w, p, h)
    \/ add_inround_ryuukyoku
    \/ \E t \in TenpaiLists : set_tenpais(t)
    \/ \E r \in RiichiLists : set_riichis(r)
    \/ concludeRound
    \/ NextRound
    \/ OverallScoreDeltas

Spec == Init /\ [][Next]_vars

----------------------------------------------------------------------------
(* The builders and calculate_hand_value, called directly *)

InitBuild ==
    /\ MatchIdle
    /\ round_wind = "EAST"
    /\ round_number = 1
    /\ honba = 0
    /\ start_riichi_stick_count = 0
    /\ riichis = <<>>
    /\ tenpais = <<>>
    /\ transactions = <<>>
    /\ concluded = NoConcludedRound
    /\ new_round = NoNewRound
    /\ overall = get_empty_score_deltas
    /\ \E c \in BuilderCalls : calls = <<c>>
    /\ result = NoTransaction
    /\ value = 0
    /\ pc = "called"

Return(op, transaction, number) ==
    /\ UNCHANGED matchVars
    /\ pc = "called"
    /\ calls[1].op = op
    /\ result' = transaction
    /\ value' = number
    /\ pc' = "returned"
    /\ UNCHANGED <<round_wind, round_number, honba, start_riichi_stick_count, riichis,
                   tenpais, transactions, concluded, new_round, overall, calls>>

CallDealIn ==
    LET c == calls[1]
    IN  Return("deal_in", get_deal_in_transaction(c.winner, c.loser, c.dealer, c.hand), 0)

CallSelfDraw ==
    LET c == calls[1]
    IN  Return("self_draw", get_self_draw_transaction(c.winner, c.dealer, c.hand), 0)

CallDealInPao ==
    LET c == calls[1]
    IN  Return("deal_in_pao",
               get_deal_in_pao_transaction(c.winner, c.loser, c.pao, c.dealer, c.hand), 0)

CallSelfDrawPao ==
    LET c == calls[1]
    IN  Return("self_draw_pao",
               get_self_draw_pao_transaction(c.winner, c.pao, c.dealer, c.hand), 0)

CallNagashiMangan ==
    LET c == calls[1]
    IN  Return("nagashi_mangan", get_nagashi_mangan_transaction(c.winner, c.dealer), 0)

CallInRoundRyuukyoku ==
    Return("inround_ryuukyoku", get_in_round_ryuukyoku_transaction, 0)

CallHandValue ==
    LET c == calls[1]
    IN  Return("hand_value", NoTransaction, calculate_hand_value(c.multiplier, c.hand))

NextBuild ==
    \/ CallDealIn
    \/ CallSelfDraw
    \/ CallDealInPao
    \/ CallSelfDrawPao
    \/ CallNagashiMangan
    \/ CallInRoundRyuukyoku
    \/ CallHandValue

SpecBuild == InitBuild /\ [][NextBuild]_vars

----------------------------------------------------------------------------
(* The accumulator used again after concludeRound *)

\* The transaction the builder of an add_* call returned.
BuiltBy(c) ==
    CASE c.op = "deal_in" ->
             get_deal_in_transaction(c.winner, c.loser, c.dealer, c.hand)
      [] c.op = "self_draw" -> get_self_draw_transaction(c.winner, c.dealer, c.hand)
      [] c.op = "nagashi_mangan" -> get_nagashi_mangan_transaction(c.winner, c.dealer)
      [] c.op = "deal_in_pao" ->
             get_deal_in_pao_transaction(c.winner, c.loser, c.pao, c.dealer, c.hand)
      [] c.op = "self_draw_pao" ->
             get_self_draw_pao_transaction(c.winner, c.pao, c.dealer, c.hand)
      [] c.op = "inround_ryuukyoku" -> get_in_round_ryuukyoku_transaction

\* The add_* calls made on a sealed accumulator.
AddCalls ==
    {Call("deal_in", w, l, NoSeat, dealer_index, h, 0) :
        w \in Winners, l \in Losers, h \in RoundHands}
    \cup {Call("self_draw", w, NoSeat, NoSeat, dealer_index, h, 0) :
        w \in Winners, h \in RoundHands}
    \cup {Call("nagashi_mangan", w, NoSeat, NoSeat, dealer_index, NoHand, 0) :
        w \in Winners}
    \cup {Call("deal_in_pao", w, l, p, dealer_index, h, 0) :
        w \in Winners, l \in Losers, p \in PaoSeats, h \in RoundHands}
    \cup {Call("self_draw_pao", w, NoSeat, p, dealer_index, h, 0) :
        w \in Winners, p \in PaoSeats, h \in RoundHands}
    \cup {Call("inround_ryuukyoku", NoSeat, NoSeat, NoSeat, NoSeat, NoHand, 0)}

ReuseRounds == {NewRound("EAST", 1, 2, 2), NewRound("SOUTH", 4, 0, 1)}

InitReuse ==
    /\ MatchIdle
    /\ \E n \in ReuseRounds :
          /\ round_wind = n.round_wind
          /\ round_number = n.round_number
          /\ honba = n.honba
          /\ start_riichi_stick_count = n.start_riichi_stick_count
    /\ riichis = <<>>
    /\ tenpais = <<>>
    /\ transactions = <<>>
    /\ concluded = NoConcludedRound
    /\ new_round = NoNewRound
    /\ overall = get_empty_score_deltas
    /\ calls = <<>>
    /\ result = NoTransaction
    /\ value = 0
    /\ pc = "open"

\* An add_* call after concludeRound: self.transactions, to which it appends,
\* is the list the ConcludedRound holds.
AddAfterSeal(c) ==
    /\ UNCHANGED matchVars
    /\ pc = "sealed"
    /\ Len(transactions) < MaxTrans
    /\ (c.winner # c.loser /\ c.winner # c.pao) \/ c.op = "inround_ryuukyoku"
    /\ transactions' = Append(transactions, BuiltBy(c))
    /\ calls' = Append(calls, c)
    /\ pc' = "reused"
    /\ UNCHANGED <<round_wind, round_number, honba, start_riichi_stick_count,
                   riichis, tenpais, concluded, new_round, overall, result, value>>

\* set_tenpais after concludeRound binds self.tenpais to another list; the
\* ConcludedRound keeps the one it was made with.
SetTenpaisAfterSeal(tenpai_list) ==
    /\ UNCHANGED matchVars
    /\ pc = "sealed"
    /\ tenpais' = tenpai_list
    /\ pc' = "reused"
    /\ UNCHANGED <<round_wind, round_number, honba, start_riichi_stick_count, riichis,
                   transactions, concluded, new_round, overall, calls, result, value>>

SetRiichisAfterSeal(riichi_list) ==
    /\ UNCHANGED matchVars
    /\ pc = "sealed"
    /\ riichis' = riichi_list
    /\ pc' = "reused"
    /\ UNCHANGED <<round_wind, round_number, honba, start_riichi_stick_count, tenpais,
                   transactions, concluded, new_round, overall, calls, result, value>>

\* A second concludeRound: transform_transactions runs again on
\* self.transactions, the list of the first ConcludedRound, and `concluded`
\* becomes the second one, which holds that list too.
ConcludeRoundAgain ==
    /\ UNCHANGED matchVars
    /\ pc = "sealed"
    /\ IF transform_transactions_raises(transactions)
       THEN /\ pc' = "seal_raised"
            /\ UNCHANGED <<transactions, concluded>>
       ELSE /\ concluded' =
                   [round_wind |-> round_wind, round_number |-> round_number,
                    honba |-> honba,
                    start_riichi_stick_count |-> start_riichi_stick_count,
                    end_riichi_stick_count |-> get_final_riichi_sticks,
                    riichis |-> riichis, tenpais |-> tenpais]
            /\ transactions' = transform_transactions(transactions, honba)
            /\ pc' = "resealed"
    /\ UNCHANGED <<round_wind, round_number, honba, start_riichi_stick_count, riichis,
                   tenpais, new_round, overall, calls, result, value>>

NextReuse ==
    \/ Next
    \/ \E c \in AddCalls : AddAfterSeal(c)
    \/ \E t \in TenpaiLists : SetTenpaisAfterSeal(t)
    \/ \E r \in RiichiLists : SetRiichisAfterSeal(r)
    \/ ConcludeRoundAgain

SpecReuse == InitReuse /\ [][NextReuse]_vars

----------------------------------------------------------------------------
(* round_end.py: is_game_end, called after generate_next_round *)

\* The number of concluded rounds the loop of is_game_end adds to total_score:
\* all of them, or those before the first one for which
\* generate_overall_score_deltas raises.
RECURSIVE RoundsAdded(_, _)
RoundsAdded(rounds, n) ==
    IF n > Len(rounds) THEN Len(rounds)
    ELSE IF generate_overall_score_deltas_raises(rounds[n]) THEN n - 1
    ELSE RoundsAdded(rounds, n + 1)

\* total_score after the loop has added the first n concluded rounds to it.
RECURSIVE TotalScore(_, _, _)
TotalScore(score, rounds, n) ==
    IF n = 0 THEN score
    ELSE LET total_score == TotalScore(score, rounds, n - 1)
             overall_score_deltas == generate_overall_score_deltas(rounds[n])
         IN  [i \in Seats |-> total_score[i] + overall_score_deltas[i]]

\* The loop over total_score without its test for a negative score.
ScoreLoop_NoNegative(total_score) ==
    IF \E i \in Seats : total_score[i] >= RETURNING_POINT
    THEN "exceeds_hanten"
    ELSE "not_exceeds_hanten"

\* The loop over total_score: it returns True at a negative score, whatever
\* it saw before, and otherwise leaves exceeds_hanten set or not.
ScoreLoop(total_score) ==
    IF \E i \in Seats : total_score[i] < 0 THEN "return_true"
    ELSE IF \E i \in Seats : total_score[i] >= RETURNING_POINT
    THEN "exceeds_hanten"
    ELSE "not_exceeds_hanten"

\* is_game_end raises when generate_overall_score_deltas does, and at
\* concluded_rounds[-1] of an empty list.
is_game_end_raises(n, rounds, score) ==
    /\ n.round_wind # "NORTH"
    /\ \/ RoundsAdded(rounds, 1) < Len(rounds)
       \/ /\ Len(rounds) = 0
          /\ ScoreLoop(score) = "exceeds_hanten"
          /\ n.round_wind # "WEST"

\* is_game_end with > in its last loop: a seat level with the last seat does
\* not keep the match going.
is_game_end_TieEnds(n, rounds, score) ==
    IF n.round_wind = "NORTH" THEN TRUE
    ELSE LET total_score == TotalScore(score, rounds, Len(rounds))
             last_round == rounds[Len(rounds)]
         IN  IF ScoreLoop(total_score) = "return_true" THEN TRUE
             ELSE IF ScoreLoop(total_score) = "not_exceeds_hanten" THEN FALSE
             ELSE IF n.round_wind = "WEST" THEN TRUE
             ELSE IF \/ last_round.round_wind # "SOUTH"
                     \/ last_round.round_number # NUM_PLAYERS
             THEN FALSE
             ELSE \A i \in 0 .. NUM_PLAYERS - 2 :
                      ~(total_score[i] > total_score[NUM_PLAYERS - 1])

\* is_game_end(new_round, concluded_rounds, starting_score), score being the
\* list total_score is bound to: starting_score, or a new list of four
\* STARTING_POINT when starting_score is None.
is_game_end(n, rounds, score) ==
    IF n.round_wind = "NORTH" THEN TRUE
    ELSE LET total_score == TotalScore(score, rounds, Len(rounds))
             last_round == rounds[Len(rounds)]
         IN  IF ScoreLoop(total_score) = "return_true" THEN TRUE
             ELSE IF ScoreLoop(total_score) = "not_exceeds_hanten" THEN FALSE
             ELSE IF n.round_wind = "WEST" THEN TRUE
             ELSE IF \/ last_round.round_wind # "SOUTH"
                     \/ last_round.round_number # NUM_PLAYERS
             THEN FALSE
             ELSE \A i \in 0 .. NUM_PLAYERS - 2 :
                      ~(total_score[i] >= total_score[NUM_PLAYERS - 1])

\* An earlier round of the match: EAST 1, the dealer discarding into seat 1's
\* 30 fu 3 han hand, sealed.
EarlierRound ==
    [round_wind |-> "EAST", round_number |-> 1, honba |-> 0,
     start_riichi_stick_count |-> 0, end_riichi_stick_count |-> 0,
     riichis |-> <<>>, tenpais |-> <<>>,
     transactions |->
         transform_transactions(<<get_deal_in_transaction(1, 0, 0, Hand(30, 3))>>, 0)]

EarlierHistories == {<<>>, <<EarlierRound>>}

\* What the caller passes as starting_score: nothing, the list of
\* get_starting_score(), or a list of its own.
StartingScores ==
    {NoStartingScore,
     [given |-> TRUE, list |-> get_starting_score],
     [given |-> TRUE, list |-> [i \in Seats |-> IF i < 2 THEN 20000 ELSE 30000]]}

MatchRounds == {NewRound("EAST", 1, 1, 0), NewRound("SOUTH", 4, 0, 1)}
MatchHands == {Hand(30, 3), Hand(30, 13)}
MatchPaoHands == {Hand(30, 13)}
MatchWinners == {1, 3}
MatchLosers == {0}
MatchPaoSeats == {2}
MatchRiichiLists == {<<>>, <<1>>}
MatchTenpaiLists == {<<>>, <<0, 3>>}

InitMatch ==
    /\ \E r \in MatchRounds :
          /\ round_wind = r.round_wind
          /\ round_number = r.round_number
          /\ honba = r.honba
          /\ start_riichi_stick_count = r.start_riichi_stick_count
    /\ riichis = <<>>
    /\ tenpais = <<>>
    /\ transactions = <<>>
    /\ concluded = NoConcludedRound
    /\ new_round = NoNewRound
    /\ overall = get_empty_score_deltas
    /\ calls = <<>>
    /\ result = NoTransaction
    /\ value = 0
    /\ pc = "open"
    /\ earlier_rounds \in EarlierHistories
    /\ starting_score \in StartingScores
    /\ game_end = <<>>

\* The concluded_rounds the caller passes: the earlier rounds and the one
\* just sealed.
concluded_rounds == Append(earlier_rounds, concluded_round)

\* is_game_end(new_round, concluded_rounds, starting_score). total_score is
\* starting_score itself, so the rounds are added to the caller's list.
GameEndCall(from, to) ==
    /\ pc = from
    /\ LET score == IF starting_score.given THEN starting_score.list
                    ELSE get_starting_score
       IN  /\ IF is_game_end_raises(new_round, concluded_rounds, score)
              THEN pc' = "end_raised" /\ UNCHANGED game_end
              ELSE /\ pc' = to
                   /\ game_end' =
                          Append(game_end,
                                 [score |-> score,
                                  returned |-> is_game_end(new_round, concluded_rounds,
                                                           score)])
           /\ starting_score' =
                  IF starting_score.given /\ new_round.round_wind # "NORTH"
                  THEN [starting_score EXCEPT
                           !.list = TotalScore(score, concluded_rounds,
                                               RoundsAdded(concluded_rounds, 1))]
                  ELSE starting_score
    /\ UNCHANGED <<round_wind, round_number, honba, start_riichi_stick_count, riichis,
                   tenpais, transactions, concluded, new_round, overall, calls, result,
                   value, earlier_rounds>>

IsGameEnd == GameEndCall("next", "ended")

\* The same call once more, with the same arguments.
IsGameEndAgain == GameEndCall("ended", "ended_twice")

NextMatch ==
    \/ \E w \in MatchWinners, l \in MatchLosers, h \in MatchHands :
          w # l /\ add_deal_in(w, l, h)
    \/ \E w \in MatchWinners, h \in MatchHands : add_self_draw(w, h)
    \/ \E w \in MatchWinners : add_nagashi_mangan(w)
    \/ \E w \in MatchWinners, l \in MatchLosers, p \in MatchPaoSeats, h \in MatchPaoHands :
          w # l /\ add_deal_in_pao(w, l, p, h)
    \/ \E w \in MatchWinners, p \in MatchPaoSeats, h \in MatchPaoHands :
          add_self_draw_pao(w, p, h)
    \/ add_inround_ryuukyoku
    \/ \E t \in MatchTenpaiLists : set_tenpais(t)
    \/ \E r \in MatchRiichiLists : set_riichis(r)
    \/ concludeRound
    \/ NextRound
    \/ IsGameEnd
    \/ IsGameEndAgain

SpecMatch == InitMatch /\ [][NextMatch]_vars

----------------------------------------------------------------------------
(* A match: each round's accumulator is made from the NewRound of the last *)

MaxHonba == 2

InitProgress ==
    /\ MatchIdle
    /\ round_wind = "EAST"
    /\ round_number = 1
    /\ honba = 0
    /\ start_riichi_stick_count = 0
    /\ riichis = <<>>
    /\ tenpais = <<>>
    /\ transactions = <<>>
    /\ concluded = NoConcludedRound
    /\ new_round = NoNewRound
    /\ overall = get_empty_score_deltas
    /\ calls = <<>>
    /\ result = NoTransaction
    /\ value = 0
    /\ pc = "open"

\* RiichiRound(new_round), while the wind is EAST, SOUTH or WEST.
StartNextRound ==
    /\ pc = "next"
    /\ new_round.round_wind # "NORTH"
    /\ new_round.honba <= MaxHonba
    /\ round_wind' = new_round.round_wind
    /\ round_number' = new_round.round_number
    /\ honba' = new_round.honba
    /\ start_riichi_stick_count' = new_round.start_riichi_stick_count
    /\ riichis' = <<>>
    /\ tenpais' = <<>>
    /\ transactions' = <<>>
    /\ concluded' = NoConcludedRound
    /\ calls' = <<>>
    /\ pc' = "open"
    /\ UNCHANGED <<new_round, overall, result, value, matchVars>>

NextProgress ==
    \/ \E w \in Winners, h \in RoundHands : add_self_draw(w, h)
    \/ add_inround_ryuukyoku
    \/ \E t \in TenpaiLists : set_tenpais(t)
    \/ concludeRound
    \/ NextRound
    \/ StartNextRound

SpecProgress == InitProgress /\ [][NextProgress]_vars

----------------------------------------------------------------------------
(* generate_tenpai_score_deltas, called directly *)

\* The lists of seats without duplicates.
SeatLists ==
    {list \in UNION {[1 .. n -> Seats] : n \in 0 .. NUM_PLAYERS} :
        \A i, j \in 1 .. Len(list) : i # j => list[i] # list[j]}

InitTenpai ==
    /\ MatchIdle
    /\ round_wind = "EAST"
    /\ round_number = 1
    /\ honba = 0
    /\ start_riichi_stick_count = 0
    /\ riichis = <<>>
    /\ tenpais \in SeatLists
    /\ transactions = <<>>
    /\ concluded = NoConcludedRound
    /\ new_round = NoNewRound
    /\ overall = get_empty_score_deltas
    /\ calls = <<>>
    /\ result = NoTransaction
    /\ value = 0
    /\ pc = "called"

CallTenpaiScoreDeltas ==
    /\ UNCHANGED matchVars
    /\ pc = "called"
    /\ overall' = generate_tenpai_score_deltas(tenpais)
    /\ pc' = "returned"
    /\ UNCHANGED <<round_wind, round_number, honba, start_riichi_stick_count, riichis,
                   tenpais, transactions, concluded, new_round, calls, result, value>>

SpecTenpai == InitTenpai /\ [][CallTenpaiScoreDeltas]_vars

----------------------------------------------------------------------------
(* Properties *)

SumDeltas(d) == d[0] + d[1] + d[2] + d[3]

CeilDiv(a, b) == (a + b - 1) \div b

Min(a, b) == IF a < b THEN a ELSE b

\* The call a builder was made with, once it has returned.
Returned(op) == pc = "returned" /\ calls[1].op = op

\* C1: deal_in(winner, loser, dealer, hand) with winner # loser gives a
\* DEAL_IN transaction with the loser at -V, the winner at +V and the other two
\* seats at 0, V = hand_value(6 if the winner is the dealer, else 4), and V > 0
\* for han in 0..13.
C1_DealInPaysTheWinner ==
    (Returned("deal_in") /\ calls[1].winner # calls[1].loser) =>
        LET c == calls[1]
            V == calculate_hand_value(IF c.winner = c.dealer THEN 6 ELSE 4, c.hand)
        IN  /\ result.transaction_type = "DEAL_IN"
            /\ result.score_deltas =
                   [i \in Seats |-> IF i = c.loser THEN -V
                                    ELSE IF i = c.winner THEN V ELSE 0]
            /\ c.hand.han <= 13 => V > 0

\* C2: for han < 5, hand_value(multiplier, hand) is the raw value
\* fu * 2^(2+han) * multiplier rounded UP to the next multiple of 100, capped
\* at 2000 * multiplier.
C2_HandValueRoundsUp ==
    (Returned("hand_value") /\ calls[1].hand.han < 5) =>
        LET c == calls[1]
        IN  value = Min(CeilDiv(c.hand.fu * (2 ^ (2 + c.hand.han)) * c.multiplier, 100) * 100,
                        2000 * c.multiplier)

\* C3, as stated: the score_deltas of the transaction any builder returns, for
\* pairwise distinct seats, sum to zero.
C3_EveryBuilderIsZeroSum ==
    (pc = "returned" /\ calls[1].op # "hand_value" /\ DistinctSeats(calls[1])) =>
        SumDeltas(result.score_deltas) = 0

\* C3, amended: the score_deltas sum to zero for every builder other than
\* deal_in_pao, and for deal_in_pao whenever han >= 5.
C3_BuildersZeroSumButSmallPao ==
    (/\ pc = "returned"
     /\ calls[1].op # "hand_value"
     /\ DistinctSeats(calls[1])
     /\ (calls[1].op = "deal_in_pao" => calls[1].hand.han >= 5)) =>
        SumDeltas(result.score_deltas) = 0

\* C3, witness: a deal_in_pao of a hand of han >= 5 that moved points, and
\* sums to zero.
C3_Witness ==
    /\ Returned("deal_in_pao")
    /\ DistinctSeats(calls[1])
    /\ calls[1].hand.han >= 5
    /\ result.score_deltas[calls[1].winner] > 0
    /\ result.score_deltas[calls[1].loser] < 0
    /\ SumDeltas(result.score_deltas) = 0

\* C4: after concludeRound of an accumulator with at least one transaction,
\* every transaction's score_deltas sum to zero, and so does the per-seat raw
\* sum of the transactions.
C4_SealedTransactionsZeroSum ==
    (pc = "sealed" /\ Len(transactions) >= 1) =>
        /\ \A k \in 1 .. Len(transactions) : SumDeltas(transactions[k].score_deltas) = 0
        /\ SumDeltas(reduce_score_deltas(concluded_round.transactions)) = 0

WinningKinds == {"DEAL_IN", "SELF_DRAW", "DEAL_IN_PAO", "SELF_DRAW_PAO"}

\* The kinds of the transactions the add_* calls made.
KindOfCall(op) ==
    CASE op = "deal_in" -> "DEAL_IN"
      [] op = "self_draw" -> "SELF_DRAW"
      [] op = "deal_in_pao" -> "DEAL_IN_PAO"
      [] op = "self_draw_pao" -> "SELF_DRAW_PAO"
      [] op = "nagashi_mangan" -> "NAGASHI_MANGAN"
      [] op = "inround_ryuukyoku" -> "INROUND_RYUUKYOKU"

BeforeSticks(c) ==
    LET raw == SubtractRiichis(reduce_score_deltas(c.transactions), c.riichis)
        tenpai_deltas == generate_tenpai_score_deltas(c.tenpais)
    IN  [i \in Seats |-> tenpai_deltas[i] + raw[i]]

\* C6: for a round of add_deal_in calls against a single discarder, sealed
\* with end_riichi_stick_count = 0, generate_overall_score_deltas adds
\* (start_riichi_stick_count + riichi declared) * 1000 to one seat, a seat
\* passed as winner to add_deal_in, never the discarder.
C6_SticksGoToARonWinner ==
    (/\ pc = "scored"
     /\ concluded_round.end_riichi_stick_count = 0
     /\ Len(calls) >= 1
     /\ \A k \in 1 .. Len(calls) :
           calls[k].op = "deal_in" /\ calls[k].loser = calls[1].loser) =>
        \E k \in 1 .. Len(calls) :
            /\ calls[k].winner # calls[1].loser
            /\ overall =
                   [BeforeSticks(concluded_round) EXCEPT ![calls[k].winner] =
                       @ + (concluded_round.start_riichi_stick_count
                            + Len(concluded_round.riichis)) * 1000]

\* C7: from EAST round 1 with any honba, add_deal_in(winner=1, loser=0, hand)
\* with no riichi and no tenpai list, then seal, then next_round, gives round
\* number 2, wind EAST and honba 0.
C7_DealerDealsInAndPasses ==
    (/\ pc = "next"
     /\ concluded_round.round_wind = "EAST"
     /\ concluded_round.round_number = 1
     /\ Len(calls) = 1
     /\ calls[1].op = "deal_in" /\ calls[1].winner = 1 /\ calls[1].loser = 0
     /\ concluded_round.riichis = <<>>
     /\ concluded_round.tenpais = <<>>) =>
        /\ new_round.round_number = 2
        /\ new_round.round_wind = "EAST"
        /\ new_round.honba = 0

\* The three reasons for the dealer to keep the seat.
DealerWon(c) ==
    \E k \in 1 .. Len(c.transactions) :
        /\ c.transactions[k].transaction_type # "NAGASHI_MANGAN"
        /\ c.transactions[k].score_deltas[c.round_number - 1] > 0

InRoundDraw(c) ==
    \E k \in 1 .. Len(c.transactions) :
        c.transactions[k].transaction_type = "INROUND_RYUUKYOKU"

DealerTenpai(c) ==
    \E k \in 1 .. Len(c.tenpais) : c.tenpais[k] = c.round_number - 1

SamePlace(c, n) ==
    n.round_number = c.round_number /\ n.round_wind = c.round_wind

\* C8: next_round keeps round_number and round_wind exactly when (a) a
\* transaction that is not NAGASHI_MANGAN has a positive delta for the dealer
\* seat, or (b) a transaction is INROUND_RYUUKYOKU, or (c) the dealer seat is in
\* the tenpai list.
C8_DealerRetainsIff ==
    (pc = "next") =>
        (SamePlace(concluded_round, new_round) <=>
            \/ DealerWon(concluded_round)
            \/ InRoundDraw(concluded_round)
            \/ DealerTenpai(concluded_round))

\* C8, witness: the dealer collected a nagashi mangan in a round of two
\* transactions, was not tenpai, and the dealership moved on.
C8_Witness ==
    /\ pc = "next"
    /\ Len(transactions) = 2
    /\ \E k \in 1 .. Len(transactions) :
          /\ transactions[k].transaction_type = "NAGASHI_MANGAN"
          /\ transactions[k].score_deltas[concluded.round_number - 1] > 0
    /\ ~SamePlace(concluded_round, new_round)

\* C9: the new honba is the concluded honba + 1 when the transaction list is
\* empty, or a transaction is INROUND_RYUUKYOKU or NAGASHI_MANGAN, or a
\* transaction gives the dealer seat a positive delta; otherwise it is 0,
\* whether or not the dealer keeps the seat.
C9_NewHonba ==
    (pc = "next") =>
        LET c == concluded_round
        IN  new_round.honba =
                IF \/ Len(c.transactions) = 0
                   \/ \E k \in 1 .. Len(c.transactions) :
                         \/ c.transactions[k].transaction_type
                                \in {"INROUND_RYUUKYOKU", "NAGASHI_MANGAN"}
                         \/ c.transactions[k].score_deltas[c.round_number - 1] > 0
                THEN c.honba + 1
                ELSE 0

\* C9, witness: a tenpai dealer keeps the seat after a round whose first
\* transaction gave it nothing, and the honba, positive before, is counted on
\* because of the second transaction.
C9_Witness ==
    /\ pc = "next"
    /\ concluded.honba > 0
    /\ Len(transactions) = 2
    /\ transactions[1].transaction_type \in WinningKinds
    /\ ~(transactions[1].score_deltas[concluded.round_number - 1] > 0)
    /\ new_round.honba = concluded.honba + 1

\* C10: when the dealer does not retain, round_number advances 1 to 2, 2 to 3,
\* 3 to 4, 4 to 1, and round_wind becomes the next wind exactly when
\* round_number wraps from 4 to 1; in both cases the new round starts with the
\* concluded round's end_riichi_stick_count.
C10_AdvanceAndCarry ==
    (pc = "next") =>
        LET c == concluded_round
            retains == dealership_retains(c.transactions, c.tenpais, c.round_number - 1)
        IN  /\ ~retains =>
                  /\ new_round.round_number = (c.round_number % 4) + 1
                  /\ new_round.round_wind =
                         IF c.round_number = 4
                         THEN WIND_ORDER[((WindIndex(c.round_wind) + 1) % 4) + 1]
                         ELSE c.round_wind
            /\ new_round.start_riichi_stick_count = c.end_riichi_stick_count

\* C10, witness: SOUTH 4 ends with riichi sticks on the table and the dealer
\* not retaining: WEST 1 starts with those sticks.
C10_Witness ==
    /\ pc = "next"
    /\ concluded.round_wind = "SOUTH"
    /\ concluded.round_number = 4
    /\ concluded.end_riichi_stick_count > concluded.start_riichi_stick_count
    /\ new_round = NewRound("WEST", 1, new_round.honba, concluded.end_riichi_stick_count)

\* C13: self_draw(winner, dealer, hand) gives a SELF_DRAW transaction in which
\* each seat i other than the winner has delta -hand_value(m_i, hand), m_i = 2
\* if seat i is the dealer or the winner is the dealer and 1 otherwise, and the
\* winner's delta is the sum of the three payments.
C13_SelfDrawPayments ==
    Returned("self_draw") =>
        LET c == calls[1]
            m(i) == IF i = c.dealer \/ c.winner = c.dealer THEN 2 ELSE 1
            others == Seats \ {c.winner}
        IN  /\ result.transaction_type = "SELF_DRAW"
            /\ \A i \in others :
                  result.score_deltas[i] = -calculate_hand_value(m(i), c.hand)
            /\ \A i, j, k \in others :
                  (i # j /\ j # k /\ i # k) =>
                      result.score_deltas[c.winner] =
                          calculate_hand_value(m(i), c.hand)
                          + calculate_hand_value(m(j), c.hand)
                          + calculate_hand_value(m(k), c.hand)

\* C13, witness: a self-draw of a seat that is not the dealer, the dealer
\* paying more than the two others.
C13_Witness ==
    /\ Returned("self_draw")
    /\ calls[1].winner # calls[1].dealer
    /\ \A i \in Seats \ {calls[1].winner, calls[1].dealer} :
          /\ result.score_deltas[i] < 0
          /\ result.score_deltas[calls[1].dealer] < result.score_deltas[i]
    /\ result.score_deltas[calls[1].winner] > 0

\* C14: for a tenpai list without duplicates of size k,
\* generate_tenpai_score_deltas gives four zeros if k is 0 or 4, and otherwise
\* +(3000 div k) to every tenpai seat and -(3000 div k) to every other seat.
C14_TenpaiSettlement ==
    (pc = "returned") =>
        LET k == Len(tenpais)
        IN  \A i \in Seats :
                overall[i] =
                    IF k = 0 \/ k = 4 THEN 0
                    ELSE IF \E n \in 1 .. k : tenpais[n] = i THEN 3000 \div k
                    ELSE -(3000 \div k)

\* C14, witness: one tenpai seat collects 3000 and each of the three others
\* is charged 3000.
C14_Witness ==
    /\ pc = "returned"
    /\ Len(tenpais) = 1
    /\ overall[tenpais[1]] = 3000
    /\ \A i \in Seats \ {tenpais[1]} : overall[i] = -3000

\* The accumulator's transactions as the add_* calls left them.
Built == [k \in 1 .. Len(calls) |-> BuiltBy(calls[k])]

\* The position of the transaction concludeRound applied the honba to.
Selected == determine_honba_transaction(Built)

\* C17: the honba transform with honba h of a selected DEAL_IN or DEAL_IN_PAO
\* transaction adds 300 * h to every positive delta of a seat that is not the
\* pao target, sets every negative delta of such a seat to -300 * h, and
\* leaves the pao target's delta and the zero deltas as they were.
C17_DealInHonba ==
    (/\ pc = "sealed"
     /\ Len(calls) >= 1
     /\ Built[Selected].transaction_type \in {"DEAL_IN", "DEAL_IN_PAO"}) =>
        \A i \in Seats :
            LET d == Built[Selected].score_deltas[i]
            IN  transactions[Selected].score_deltas[i] =
                    IF i = Built[Selected].pao_target THEN d
                    ELSE IF d > 0 THEN d + 300 * honba
                    ELSE IF d < 0 THEN -300 * honba
                    ELSE d

\* The calls are ron wins of distinct seats off one discarder.
RonsOffOneDiscarder(ops) ==
    /\ Len(calls) >= 2
    /\ \A k \in 1 .. Len(calls) :
          calls[k].op \in ops /\ calls[k].loser = calls[1].loser
    /\ \A j, k \in 1 .. Len(calls) : j # k => calls[j].winner # calls[k].winner

\* The ron winner closest after the discarder in seat order.
ClosestRonWinner ==
    CHOOSE w \in {calls[k].winner : k \in 1 .. Len(calls)} :
        \A k \in 1 .. Len(calls) :
            (w - calls[1].loser + NUM_PLAYERS) % NUM_PLAYERS
                <= (calls[k].winner - calls[1].loser + NUM_PLAYERS) % NUM_PLAYERS

\* C18: for a round of two or three add_deal_in transactions with the same
\* loser L and distinct winners, find_head_bump_winner returns the winner w
\* that minimises (w - L) mod 4.
C18_HeadBumpIsClosestWinner ==
    (pc = "sealed" /\ RonsOffOneDiscarder({"deal_in"})) =>
        find_head_bump_winner(Built) = ClosestRonWinner

\* C19: for a round of two or more transactions without a SELF_DRAW, here ron
\* wins off one discarder, concludeRound applies the honba to a transaction in
\* which the ron winner closest after the discarder has a positive delta, a
\* DEAL_IN_PAO one if there is one, and leaves every other transaction as its
\* builder made it.
C19_HonbaGoesToTheHeadBump ==
    (pc = "sealed" /\ RonsOffOneDiscarder({"deal_in", "deal_in_pao"})) =>
        /\ Built[Selected].score_deltas[ClosestRonWinner] > 0
        /\ (\E j \in 1 .. Len(calls) :
               /\ Built[j].transaction_type = "DEAL_IN_PAO"
               /\ Built[j].score_deltas[ClosestRonWinner] > 0) =>
               Built[Selected].transaction_type = "DEAL_IN_PAO"
        /\ \A j \in 1 .. Len(calls) : j # Selected => transactions[j] = Built[j]

\* C20: the honba transform with honba h of a selected SELF_DRAW transaction
\* adds 300 * h to every positive delta and replaces every other delta by
\* -100 * h; a selected NAGASHI_MANGAN or INROUND_RYUUKYOKU transaction keeps
\* its four deltas.
C20_SelfDrawHonba ==
    (pc = "sealed" /\ Len(calls) >= 1) =>
        /\ Built[Selected].transaction_type = "SELF_DRAW" =>
              \A i \in Seats :
                  LET d == Built[Selected].score_deltas[i]
                  IN  transactions[Selected].score_deltas[i] =
                          IF d > 0 THEN d + 300 * honba ELSE -100 * honba
        /\ Built[Selected].transaction_type \in {"NAGASHI_MANGAN", "INROUND_RYUUKYOKU"} =>
              transactions[Selected].score_deltas = Built[Selected].score_deltas

\* C20, witness: a SELF_DRAW sealed with honba 2: the winner has 600 more than
\* the builder gave and each of the three others pays 200.
C20_Witness ==
    /\ pc = "sealed"
    /\ Len(calls) >= 1
    /\ honba = 2
    /\ Built[Selected].transaction_type = "SELF_DRAW"
    /\ \E w \in Seats :
          /\ transactions[Selected].score_deltas[w] = Built[Selected].score_deltas[w] + 600
          /\ \A i \in Seats \ {w} :
                /\ Built[Selected].score_deltas[i] < -200
                /\ transactions[Selected].score_deltas[i] = -200

\* C15: the ConcludedRound concludeRound returned is a snapshot: no later
\* operation on the same accumulator (an add_* call, set_riichis, set_tenpais,
\* a second concludeRound) changes its transactions, riichis, tenpais or
\* end_riichi_stick_count, and a second concludeRound with nothing in between
\* returns a record equal to it (the honba is not applied twice).
C15_ConcludedRoundIsASnapshot ==
    [][pc = "sealed" => concluded_round' = concluded_round]_vars

\* The running totals the k-th call of is_game_end compared.
RunningTotal(k) ==
    TotalScore(game_end[k].score, concluded_rounds, Len(concluded_rounds))

\* The round sealed last is SOUTH 4.
LastRoundIsSouth4 ==
    concluded_round.round_wind = "SOUTH" /\ concluded_round.round_number = 4

\* C11: when the new round's wind is SOUTH or EAST, no seat is negative, some
\* seat has at least 30000 and the round concluded last is SOUTH 4,
\* is_game_end returns true exactly if each of seats 0, 1, 2 has a running
\* total strictly less than seat 3's; a seat level with or above seat 3 keeps
\* the match going.
C11_LastDealerMustLead ==
    \A k \in 1 .. Len(game_end) :
        LET total == RunningTotal(k)
        IN  (/\ new_round.round_wind \in {"SOUTH", "EAST"}
             /\ LastRoundIsSouth4
             /\ \A i \in Seats : total[i] >= 0
             /\ \E i \in Seats : total[i] >= 30000) =>
                (game_end[k].returned <=> \A i \in {0, 1, 2} : total[i] < total[3])

\* C11, witness: after SOUTH 4 seats 2 and 3 are level at 30000 or more, the
\* two others below them, and the match goes on.
C11_Witness ==
    /\ Len(game_end) >= 1
    /\ new_round.round_wind = "SOUTH"
    /\ LastRoundIsSouth4
    /\ RunningTotal(1)[2] = RunningTotal(1)[3]
    /\ RunningTotal(1)[3] >= 30000
    /\ \A i \in {0, 1} : RunningTotal(1)[i] >= 0 /\ RunningTotal(1)[i] < RunningTotal(1)[3]
    /\ ~game_end[1].returned

\* C12: for every history and new round whose wind is not NORTH, if the
\* replay of the history from 25000 a seat leaves a seat negative, is_game_end
\* returns true, whatever the wind, the round number and the other totals.
C12_NegativeSeatEndsTheMatch ==
    \A k \in 1 .. Len(game_end) :
        LET total == RunningTotal(k)
        IN  (/\ new_round.round_wind # "NORTH"
             /\ game_end[k].score = [i \in Seats |-> 25000]
             /\ \E i \in Seats : total[i] < 0) =>
                game_end[k].returned

\* C12, witness: a negative seat after EAST 1, the next round EAST again:
\* nothing but the negative total ends the match.
C12_Witness ==
    /\ Len(game_end) >= 1
    /\ game_end[1].score = [i \in Seats |-> 25000]
    /\ \E i \in Seats : RunningTotal(1)[i] < 0
    /\ concluded_round.round_wind = "EAST"
    /\ new_round.round_wind = "EAST"
    /\ game_end[1].returned

\* C16: is_game_end is pure: a call leaves new_round, every ConcludedRound of
\* the history and the starting_score list the caller passed unchanged, so two
\* successive calls with the same arguments return the same boolean.
C16_IsGameEndIsPure ==
    [][(pc \in {"next", "ended"} /\ pc' \in {"ended", "ended_twice"}) =>
          /\ new_round' = new_round
          /\ concluded_rounds' = concluded_rounds
          /\ starting_score' = starting_score
          /\ Len(game_end') = 2 => game_end'[2].returned = game_end'[1].returned]_vars

\* C21: for a ConcludedRound sealed from an accumulator holding exactly one
\* transaction of any kind, with any honba >= 0 and any riichi and tenpai
\* lists, generate_overall_score_deltas returns four deltas and never fails.
C21_OneTransactionNeverFails ==
    (Len(calls) = 1) => pc \notin {"seal_raised", "score_raised"}

\* C22: for every ConcludedRound on which generate_overall_score_deltas
\* returns, the four overall deltas plus 1000 * (end_riichi_stick_count -
\* start_riichi_stick_count) sum to zero.
C22_PointsAreConserved ==
    (pc = "scored") =>
        SumDeltas(overall)
            + 1000 * (concluded_round.end_riichi_stick_count
                      - concluded_round.start_riichi_stick_count) = 0

\* The place of a round in the order E1, E2, E3, E4, S1, ..., W4, N1, ...
PlaceInOrder(wind, number) == NUM_PLAYERS * WindIndex(wind) + number - 1

\* C23: from EAST 1, applying generate_next_round to the round just
\* concluded while the wind is EAST, SOUTH or WEST, every step leaves
\* (round_wind, round_number) unchanged or moves it to its immediate successor
\* in the order E1, E2, E3, E4, S1, ..., W4, N1; round_number stays in 1..4,
\* the place never moves backward, and a wind is left only from its round 4.
C23_RoundsFollowTheOrder ==
    /\ round_number \in 1 .. 4
    /\ (pc = "next") =>
          LET before == PlaceInOrder(concluded.round_wind, concluded.round_number)
              after == PlaceInOrder(new_round.round_wind, new_round.round_number)
          IN  /\ new_round.round_number \in 1 .. 4
              /\ after \in {before, before + 1}
              /\ new_round.round_wind # concluded.round_wind =>
                    concluded.round_number = 4

\* C23, witness: the match has gone through EAST and SOUTH to WEST 4, and the
\* round after WEST 4 is NORTH 1.
C23_Witness ==
    /\ pc = "next"
    /\ concluded.round_wind = "WEST"
    /\ concluded.round_number = 4
    /\ new_round.round_wind = "NORTH"
    /\ new_round.round_number = 1

====
